---- MODULE Spec2Model ----
(***************************************************************************)
(* Clinic queue management: Patient priority, the per-doctor heap queue,   *)
(* and QueueManagementSystem.assign_patient, modelled from                 *)
(* "Assessment #2/skeletonCodeAssessment2.py".                             *)
(*                                                                         *)
(* Time is counted in whole seconds.  A patient_id (a uuid4 in the code)   *)
(* is the creation number of the patient; a doctor id "DOC-i" is the       *)
(* integer i.  Python's None is the falsy value of the field's type: the   *)
(* empty tuple for a medical condition or an optional time, the empty      *)
(* string for a source.                                                    *)
(***************************************************************************)
EXTENDS Integers, Sequences, FiniteSets, TLC

VARIABLES
    clock,          \* what datetime.now() returns, in seconds
    pending,        \* Patient objects constructed and not yet queued, oldest first
    created,        \* number of Patient objects constructed so far
    order,          \* keys of self.doctors in dict (insertion) order
    doctors,        \* self.doctors: doctor id -> Doctor
    notifications,  \* what send_notification has printed and logged, oldest first
    queued,         \* per doctor: pushes on its queue less the patients popped off it
    calls,          \* SpecQueue, per doctor: the calls made on its queue (see NoCalls)
    result          \* the last operation: its arguments, its outcome, the state before it

vars == <<clock, pending, created, order, doctors, notifications, queued, calls, result>>

----------------------------------------------------------------------------
(* Bounds of the model *)

MaxDoctors == 2     \* doctor ids are 1..MaxDoctors
MaxPatients == 2    \* Patient objects constructed in one behaviour of Spec
MaxQueued == 3      \* Patient objects constructed in one behaviour of SpecQueue
ExtraPops == 2      \* next_patient calls allowed beyond the pushes on a queue
MaxClock == 120     \* the clock stops advancing here
MaxBalanced == 4    \* Patient objects constructed in one behaviour of SpecBalance

DoctorIds == 1..MaxDoctors

\* Clock advances between two operations
TickSteps == {30, 60}

\* A source that is none of 'App', 'Walk-in', 'WhatsApp'
UnknownSource == "Email"

----------------------------------------------------------------------------
(* Patient *)

\* _generate_medical_condition: the list random.choice draws from
conditions == <<
    <<"Minor Checkup", 1>>,
    <<"Routine Prescription", 2>>,
    <<"Chronic Disease Follow-up", 3>>,
    <<"Acute Pain", 4>>,
    <<"Severe Symptoms", 5>> >>

ConditionSet == {conditions[i] : i \in 1..Len(conditions)}

\* random.choice(['App', 'Walk-in', 'WhatsApp'])
RandomSources == {"App", "Walk-in", "WhatsApp"}

\* source_priority.get(source, 0)
source_priority(source) ==
    CASE source = "Walk-in" -> -1
      [] source = "App" -> 1
      [] source = "WhatsApp" -> 0
      [] OTHER -> 0

Max(a, b) == IF a >= b THEN a ELSE b

\* _calculate_urgency: the severity of a fresh draw, drawn being that draw
_calculate_urgency(drawn) == drawn[2]

\* Variant of calculate_priority without max(0, ...): an early arrival counts
\* as a negative delay
calculate_priority_noclamp(urgency, source, scheduled_time, arrival_time) ==
    LET delay == (arrival_time - scheduled_time) \div 60
    IN  (urgency * 10) - delay + source_priority(source)

\* calculate_priority: total_seconds() // 60 is a floor division
calculate_priority(urgency, source, scheduled_time, arrival_time) ==
    LET delay == Max(0, (arrival_time - scheduled_time) \div 60)
    IN  (urgency * 10) - delay + source_priority(source)

\* Patient.__init__.  scheduled_time, source and medical_condition are the
\* arguments (falsy when left out); now is the clock; rSource, rCondition and
\* rUrgency are the draws of random.choice at lines 35, 36 and 61.
Patient(pid, scheduled_time, source, medical_condition, now, rSource, rCondition, rUrgency) ==
    LET sched == IF scheduled_time # <<>> THEN scheduled_time[1] ELSE now
        src == IF source # "" THEN source ELSE rSource
        mc == IF medical_condition # <<>> THEN medical_condition ELSE rCondition
        urg == _calculate_urgency(rUrgency)
    IN  [ patient_id |-> pid,
          scheduled_time |-> sched,
          arrival_time |-> now,
          source |-> src,
          medical_condition |-> mc,
          urgency |-> urg,
          priority |-> calculate_priority(urg, src, sched, now) ]

\* Variant of Patient.__lt__ with the comparison the natural way round
Patient_lt_min(a, b) == a.priority < b.priority

\* Patient.__lt__: a < b
Patient_lt(a, b) == a.priority > b.priority

----------------------------------------------------------------------------
(* Doctor: the queue is a heapq list, kept here as a sequence whose element *)
(* i+1 is heap[i]                                                           *)

\* random.randint(10, 25) at line 100: the draws the model takes
AvgTimes == {10, 25}

\* specializations, the list random.choice draws from at line 145
specializations == <<"General", "Pediatrics", "Cardiology", "Neurology", "Orthopedics">>

SpecializationSet == {specializations[i] : i \in 1..Len(specializations)}

\* Doctor.__init__: avg is the draw of random.randint at line 100
Doctor(doctor_id, specialization, avg) ==
    [ doctor_id |-> doctor_id,
      specialization |-> specialization,
      queue |-> <<>>,
      avg_consultation_time |-> avg ]

RECURSIVE siftdown_loop(_, _, _, _)
\* the while loop of heapq._siftdown: newitem climbs while it is < its parent
siftdown_loop(heap, startpos, pos, newitem) ==
    IF pos > startpos
    THEN LET parentpos == (pos - 1) \div 2
             parent == heap[parentpos + 1]
         IN  IF Patient_lt(newitem, parent)
             THEN siftdown_loop([heap EXCEPT ![pos + 1] = parent], startpos, parentpos, newitem)
             ELSE [heap EXCEPT ![pos + 1] = newitem]
    ELSE [heap EXCEPT ![pos + 1] = newitem]

\* heapq._siftdown(heap, startpos, pos)
_siftdown(heap, startpos, pos) == siftdown_loop(heap, startpos, pos, heap[pos + 1])

RECURSIVE siftup_loop(_, _, _, _)
\* the while loop of heapq._siftup: the smaller child is moved up until a leaf
\* is hit, then newitem is put there and sifted down to its place
siftup_loop(heap, startpos, pos, newitem) ==
    LET endpos == Len(heap)
        leftpos == 2 * pos + 1
        rightpos == leftpos + 1
        childpos == IF rightpos < endpos /\ ~Patient_lt(heap[leftpos + 1], heap[rightpos + 1])
                    THEN rightpos
                    ELSE leftpos
    IN  IF leftpos < endpos
        THEN siftup_loop([heap EXCEPT ![pos + 1] = heap[childpos + 1]], startpos, childpos, newitem)
        ELSE _siftdown([heap EXCEPT ![pos + 1] = newitem], startpos, pos)

\* Variant of heapq._siftup that leaves the heap as it finds it
_siftup_unsifted(heap, pos) == heap

\* heapq._siftup(heap, pos)
_siftup(heap, pos) == siftup_loop(heap, pos, pos, heap[pos + 1])

\* heapq.heappush(heap, item)
heappush(heap, item) == _siftdown(Append(heap, item), 0, Len(heap))

\* heapq.heappop(heap) on a non-empty heap: the item returned and the heap left
heappop(heap) ==
    LET lastelt == heap[Len(heap)]
        rest == SubSeq(heap, 1, Len(heap) - 1)
    IN  IF rest # <<>>
        THEN [ item |-> rest[1], heap |-> _siftup([rest EXCEPT ![1] = lastelt], 0) ]
        ELSE [ item |-> lastelt, heap |-> rest ]

\* Variant of Doctor.add_patient that starts the queue afresh with the patient
Doctor_add_patient_reset(doc, patient) ==
    [doc EXCEPT !.queue = <<patient>>]

\* Doctor.add_patient: the doctor after the push
Doctor_add_patient(doc, patient) ==
    [doc EXCEPT !.queue = heappush(@, patient)]

\* Variant of Doctor.next_patient that reads the head and leaves it queued
Doctor_next_patient_keep(doc) ==
    IF doc.queue # <<>>
    THEN [ ret |-> <<heappop(doc.queue).item>>, doc |-> doc ]
    ELSE [ ret |-> <<>>, doc |-> doc ]

\* Doctor.next_patient: ret is <<patient>>, or <<>> for None, and doc the
\* doctor after the call
Doctor_next_patient(doc) ==
    IF doc.queue # <<>>
    THEN [ ret |-> <<heappop(doc.queue).item>>,
           doc |-> [doc EXCEPT !.queue = heappop(@).heap] ]
    ELSE [ ret |-> <<>>, doc |-> doc ]

\* Variant of Doctor.estimate_wait_time that leaves out the queue length
Doctor_estimate_wait_time_flat(doc) == doc.avg_consultation_time

\* Doctor.estimate_wait_time
Doctor_estimate_wait_time(doc) == Len(doc.queue) * doc.avg_consultation_time

----------------------------------------------------------------------------
(* QueueManagementSystem *)

\* _map_condition_to_specialization: mapping.get(medical_condition[0], "General")
_map_condition_to_specialization(medical_condition) ==
    CASE medical_condition[1] = "Chronic Disease Follow-up" -> "Cardiology"
      [] medical_condition[1] = "Acute Pain" -> "Orthopedics"
      [] medical_condition[1] = "Severe Symptoms" -> "Neurology"
      [] OTHER -> "General"

\* Variant of _is_doctor_suitable with the General test negated
_is_doctor_suitable_flipped(doctor, patient) ==
    \/ doctor.specialization # "General"
    \/ doctor.specialization = _map_condition_to_specialization(patient.medical_condition)

\* _is_doctor_suitable
_is_doctor_suitable(doctor, patient) ==
    \/ doctor.specialization = "General"
    \/ doctor.specialization = _map_condition_to_specialization(patient.medical_condition)

\* Variant of the candidate lists that falls back on every registered doctor
suitable_doctors_any(docs, ord, patient) ==
    LET values == [i \in 1..Len(ord) |-> docs[ord[i]]]
        IsSuitable(doc) == _is_doctor_suitable(doc, patient)
        first == SelectSeq(values, IsSuitable)
    IN  IF first = <<>> THEN values ELSE first

\* the list comprehensions of assign_patient: the doctors of self.doctors.values(),
\* in dict order, that are suitable, or when none is, the General ones
suitable_doctors(docs, ord, patient) ==
    LET values == [i \in 1..Len(ord) |-> docs[ord[i]]]
        IsSuitable(doc) == _is_doctor_suitable(doc, patient)
        IsGeneral(doc) == doc.specialization = "General"
        first == SelectSeq(values, IsSuitable)
    IN  IF first = <<>> THEN SelectSeq(values, IsGeneral) ELSE first

RECURSIVE min_loop(_, _, _)
\* the scan of min(seq, key=...): best is replaced only by a strictly smaller key
min_loop(seq, i, best) ==
    IF i > Len(seq)
    THEN best
    ELSE IF Doctor_estimate_wait_time(seq[i]) < Doctor_estimate_wait_time(best)
         THEN min_loop(seq, i + 1, seq[i])
         ELSE min_loop(seq, i + 1, best)

\* Variant of the selection that ignores the waits and takes the last candidate
best_doctor_last(seq) == seq[Len(seq)]

\* min(suitable_doctors, key=lambda d: d.estimate_wait_time()) on a non-empty list
best_doctor(seq) == min_loop(seq, 2, seq[1])

\* Variant of send_notification that delivers the message twice
send_notification_twice(log, patient, message) ==
    log \o << [ patient_id |-> patient.patient_id, message |-> message ],
              [ patient_id |-> patient.patient_id, message |-> message ] >>

\* CommunicationManager.send_notification: one line printed and logged
send_notification(log, patient, message) ==
    Append(log, [ patient_id |-> patient.patient_id, message |-> message ])

\* Variant of the wait read before add_patient
wait_time_before_push(before, after) == Doctor_estimate_wait_time(before)

\* wait_time = best_doctor.estimate_wait_time(), read after add_patient
wait_time_reported(before, after) == Doctor_estimate_wait_time(after)

\* assign_patient: what it raises ("" when it returns), the doctor id it
\* returns, self.doctors and the notifications after it
assign(docs, ord, log, patient) ==
    LET candidates == suitable_doctors(docs, ord, patient)
        best == best_doctor(candidates)
        after == Doctor_add_patient(best, patient)
        message == [ doctor_id |-> best.doctor_id,
                     wait_time |-> wait_time_reported(best, after) ]
    IN  IF candidates = <<>>
        THEN [ raised |-> "ValueError", ret |-> <<>>, doctors |-> docs, notifications |-> log ]
        ELSE [ raised |-> "",
               ret |-> <<best.doctor_id>>,
               doctors |-> [docs EXCEPT ![best.doctor_id] = after],
               notifications |-> send_notification(log, patient, message) ]

----------------------------------------------------------------------------
(* Operations.  Each action is one call; queued, calls and result record    *)
(* what was called and what came back, and take no part in it.             *)

Range(seq) == {seq[i] : i \in 1..Len(seq)}

RemoveAt(seq, i) == SubSeq(seq, 1, i - 1) \o SubSeq(seq, i + 1, Len(seq))

\* What result records of a call: patient, doctor and ret are <<>> for none;
\* pre and preNotifications are the state the call began in.
Outcome(op, patient, doctor, ret, raised) ==
    [ op |-> op, patient |-> patient, doctor |-> doctor, ret |-> ret, raised |-> raised,
      pre |-> doctors, preNotifications |-> notifications ]

\* The calls recorded of a queue: the patient ids pushed, oldest first, what
\* each next_patient call returned, oldest first, and whether a patient was
\* pushed after a next_patient call
NoCalls == [ pushed |-> <<>>, returns |-> <<>>, mixed |-> FALSE ]

\* QueueManagementSystem.__init__(num_doctors) with num_doctors in nums:
\* add_doctor("DOC-1"), add_doctor("DOC-2"), ..., each with its random draws
QueueManagementSystem(nums, specs, avgs) ==
    \E num_doctors \in nums :
        \E sp \in [1..num_doctors -> specs], avg \in [1..num_doctors -> avgs] :
            /\ order = [i \in 1..num_doctors |-> i]
            /\ doctors = [i \in 1..num_doctors |-> Doctor(i, sp[i], avg[i])]
            /\ queued = [i \in 1..num_doctors |-> 0]
            /\ calls = [i \in 1..num_doctors |-> NoCalls]

\* The state after qms = QueueManagementSystem(...)
Startup(nums, specs, avgs) ==
    /\ clock = 0
    /\ pending = <<>>
    /\ created = 0
    /\ notifications = <<>>
    /\ QueueManagementSystem(nums, specs, avgs)
    /\ result = [ op |-> "__init__", patient |-> <<>>, doctor |-> <<>>, ret |-> <<>>,
                  raised |-> "", pre |-> <<>>, preNotifications |-> <<>> ]

\* Time passes between two calls
Tick ==
    /\ \E step \in TickSteps :
        /\ clock + step <= MaxClock
        /\ clock' = clock + step
    /\ UNCHANGED <<pending, created, order, doctors, notifications, queued, calls, result>>

\* patient = Patient(...): inputs are the arguments and the random draws, cap
\* bounds the patients a caller holds before queueing them, max the patients
\* constructed in all
NewPatient(inputs, cap, max) ==
    /\ created < max
    /\ Len(pending) < cap
    /\ \E a \in inputs :
        LET patient == Patient(created + 1, a.scheduled_time, a.source, a.medical_condition,
                               clock, a.rSource, a.rCondition, a.rUrgency)
        IN  /\ pending' = Append(pending, patient)
            /\ result' = Outcome("Patient", <<patient>>, <<>>, <<>>, "")
    /\ created' = created + 1
    /\ UNCHANGED <<clock, order, doctors, notifications, queued, calls>>

\* qms.add_doctor(doctor_id, specialization): a new key goes last in dict order,
\* an existing key keeps its place and gets a fresh Doctor.  Doctors are added
\* at setup, before the first patient is constructed.
add_doctor(doctor_id, specialization, avg) ==
    LET ids == DOMAIN doctors \cup {doctor_id}
    IN  /\ created = 0
        /\ order' = IF doctor_id \in DOMAIN doctors THEN order ELSE Append(order, doctor_id)
        /\ doctors' = [d \in ids |-> IF d = doctor_id
                                     THEN Doctor(doctor_id, specialization, avg)
                                     ELSE doctors[d]]
        /\ queued' = [d \in ids |-> IF d = doctor_id THEN 0 ELSE queued[d]]
        /\ calls' = [d \in ids |-> IF d = doctor_id THEN NoCalls ELSE calls[d]]
        /\ result' = [Outcome("add_doctor", <<>>, <<doctor_id>>, <<>>, "") EXCEPT !.pre = <<>>]
        /\ UNCHANGED <<clock, pending, created, notifications>>

\* doctor.add_patient(patient) on the doctor with this id
add_patient(d) ==
    /\ d \in DOMAIN doctors
    /\ \E i \in 1..Len(pending) :
        /\ doctors' = [doctors EXCEPT ![d] = Doctor_add_patient(@, pending[i])]
        /\ pending' = RemoveAt(pending, i)
        /\ result' = Outcome("add_patient", <<pending[i]>>, <<d>>, <<>>, "")
    /\ queued' = [queued EXCEPT ![d] = @ + 1]
    /\ UNCHANGED <<clock, created, order, notifications>>

\* doctor.next_patient() on the doctor with this id
next_patient(d) ==
    /\ d \in DOMAIN doctors
    /\ LET out == Doctor_next_patient(doctors[d])
       IN  /\ doctors' = [doctors EXCEPT ![d] = out.doc]
           /\ queued' = [queued EXCEPT ![d] = IF out.ret = <<>> THEN @ ELSE @ - 1]
           /\ result' = Outcome("next_patient", <<>>, <<d>>, out.ret, "")
    /\ UNCHANGED <<clock, pending, created, order, notifications>>

\* qms.assign_patient(patient); when it raises, the caller still holds the patient
assign_patient ==
    /\ \E i \in 1..Len(pending) :
        LET out == assign(doctors, order, notifications, pending[i])
        IN  /\ doctors' = out.doctors
            /\ notifications' = out.notifications
            /\ queued' = IF out.raised = ""
                         THEN [queued EXCEPT ![out.ret[1]] = @ + 1]
                         ELSE queued
            /\ pending' = IF out.raised = "" THEN RemoveAt(pending, i) ELSE pending
            /\ result' = Outcome("assign_patient", <<pending[i]>>, <<>>, out.ret, out.raised)
    /\ UNCHANGED <<clock, created, order>>

\* The calls on the queues are left unrecorded
Unrecorded == UNCHANGED calls

\* The call just made is entered in calls: a push of result'.patient by
\* add_patient or by assign_patient, or what next_patient returned
Recorded ==
    LET to == IF result'.op = "assign_patient" THEN result'.ret ELSE result'.doctor
        IsPush == result'.op \in {"add_patient", "assign_patient"} /\ to # <<>>
        IsPop == result'.op = "next_patient"
    IN  calls' = IF IsPush
                 THEN [calls EXCEPT ![to[1]].pushed = Append(@, result'.patient[1].patient_id),
                                    ![to[1]].mixed = @ \/ calls[to[1]].returns # <<>>]
                 ELSE IF IsPop
                      THEN [calls EXCEPT ![to[1]].returns = Append(@, result'.ret)]
                      ELSE calls

----------------------------------------------------------------------------
(* Specifications *)

\* Spec: the registry and assign_patient.  Doctors are registered by the
\* constructor and by add_doctor under new ids, in any order; a caller holds
\* one patient at a time; the clock stands still, so every patient arrives at
\* time 0; medical conditions are given as the (name, severity) tuples of
\* _generate_medical_condition.
RoutingInputs ==
    [ scheduled_time : {<<>>},
      source : {"App"},
      medical_condition : {conditions[1], conditions[4], conditions[5]},
      rSource : {"App"},
      rCondition : {conditions[1]},
      rUrgency : {conditions[3]} ]

RoutingSpecializations == {"General", "Orthopedics", "Cardiology"}

Init == Startup(0..MaxDoctors, RoutingSpecializations, AvgTimes)

Next ==
    \/ NewPatient(RoutingInputs, 1, MaxPatients)
    \/ \E d \in DoctorIds \ DOMAIN doctors, sp \in RoutingSpecializations, avg \in AvgTimes :
        add_doctor(d, sp, avg)
    \/ assign_patient /\ Unrecorded
    \/ \E d \in DoctorIds : next_patient(d) /\ Unrecorded

Spec == Init /\ [][Next]_vars

\* SpecQueue: one General doctor, its queue filled by add_patient and by
\* assign_patient and emptied by next_patient, every call recorded;
\* next_patient is called at most ExtraPops times more than patients were pushed
QueueInputs ==
    [ scheduled_time : {<<>>},
      source : {"App"},
      medical_condition : {conditions[1]},
      rSource : {"App"},
      rCondition : {conditions[1]},
      rUrgency : {conditions[1], conditions[2], conditions[5]} ]

InitQueue == Startup({1}, {"General"}, AvgTimes)

NextQueue ==
    \/ NewPatient(QueueInputs, 1, MaxQueued)
    \/ assign_patient /\ Recorded
    \/ \E d \in DoctorIds : add_patient(d) /\ Recorded
    \/ \E d \in DoctorIds :
        /\ d \in DOMAIN doctors
        /\ Len(calls[d].returns) < Len(calls[d].pushed) + ExtraPops
        /\ next_patient(d)
        /\ Recorded

SpecQueue == InitQueue /\ [][NextQueue]_vars

\* SpecPriority: Patient construction alone, two patients side by side, while
\* time passes
PriorityInputs ==
    [ scheduled_time : {<<>>, <<0>>, <<60>>},
      source : {"", "App", "Walk-in", "WhatsApp", UnknownSource},
      medical_condition : {<<>>, conditions[1], conditions[4]},
      rSource : {"Walk-in"},
      rCondition : {conditions[4]},
      rUrgency : {conditions[1], conditions[4], conditions[5]} ]

InitPriority == Startup({0}, {"General"}, {10})

NextPriority ==
    \/ Tick
    \/ NewPatient(PriorityInputs, 2, 2)

SpecPriority == InitPriority /\ [][NextPriority]_vars

\* SpecMapping: _map_condition_to_specialization and _is_doctor_suitable called
\* with a medical_condition of any Python type.  A value is its type and its
\* items: the items of a tuple, the characters of a str, none for an int or
\* None.
MappingArguments ==
    {[type |-> "tuple", value |-> conditions[i]] : i \in 1..Len(conditions)}
    \cup {[type |-> "tuple", value |-> <<"Flu", 2>>],
          [type |-> "tuple", value |-> <<"", 0>>],
          [type |-> "tuple", value |-> <<"Acute Pain">>],
          [type |-> "tuple", value |-> <<>>],
          [type |-> "str", value |-> <<"F", "l", "u">>],
          [type |-> "str", value |-> <<>>],
          [type |-> "int", value |-> <<>>],
          [type |-> "NoneType", value |-> <<>>]}

\* medical_condition[0] at line 199: a TypeError on a value that is not
\* subscriptable, an IndexError on an empty tuple or str
subscript0(v) ==
    IF v.type \notin {"tuple", "str"}
    THEN "TypeError"
    ELSE IF v.value = <<>> THEN "IndexError" ELSE ""

\* the call self._map_condition_to_specialization(v): the exception of the
\* subscript, if any, leaves the function
map_condition_call(v) ==
    IF subscript0(v) # ""
    THEN [ raised |-> subscript0(v), ret |-> <<>> ]
    ELSE [ raised |-> "", ret |-> <<_map_condition_to_specialization(v.value)>> ]

\* the call self._is_doctor_suitable(doctor, patient) on a patient whose
\* medical_condition is v: the right operand of `or` is evaluated only for a
\* doctor that is not General
is_doctor_suitable_call(doctor, v) ==
    IF doctor.specialization = "General"
    THEN [ raised |-> "", ret |-> <<TRUE>> ]
    ELSE IF map_condition_call(v).raised # ""
    THEN map_condition_call(v)
    ELSE [ raised |-> "", ret |-> <<doctor.specialization = map_condition_call(v).ret[1]>> ]

\* qms._map_condition_to_specialization(v)
map_condition ==
    /\ \E v \in MappingArguments :
        result' = Outcome("_map_condition_to_specialization", <<v>>, <<>>,
                          map_condition_call(v).ret, map_condition_call(v).raised)
    /\ UNCHANGED <<clock, pending, created, order, doctors, notifications, queued, calls>>

\* qms._is_doctor_suitable(qms.doctors[d], patient)
is_doctor_suitable(d) ==
    /\ \E v \in MappingArguments :
        result' = Outcome("_is_doctor_suitable", <<v>>, <<d>>,
                          is_doctor_suitable_call(doctors[d], v).ret,
                          is_doctor_suitable_call(doctors[d], v).raised)
    /\ UNCHANGED <<clock, pending, created, order, doctors, notifications, queued, calls>>

InitMapping == Startup({0, 1}, SpecializationSet, {10})

NextMapping ==
    \/ map_condition
    \/ \E d \in DOMAIN doctors : is_doctor_suitable(d)

SpecMapping == InitMapping /\ [][NextMapping]_vars

\* assign_patient when print at line 17 raises (stdout closed or broken):
\* the patient is already pushed at line 171, nothing catches the exception,
\* so it leaves assign_patient in place of the return at line 179
assign_undelivered(docs, ord, log, patient) ==
    LET out == assign(docs, ord, log, patient)
    IN  IF out.raised # ""
        THEN out
        ELSE [ raised |-> "OSError", ret |-> <<>>,
               doctors |-> out.doctors, notifications |-> log ]

\* qms.assign_patient(patient) while the notification cannot be delivered
assign_patient_undelivered ==
    /\ \E i \in 1..Len(pending) :
        LET out == assign_undelivered(doctors, order, notifications, pending[i])
            to == assign(doctors, order, notifications, pending[i]).ret
        IN  /\ doctors' = out.doctors
            /\ notifications' = out.notifications
            /\ queued' = IF to # <<>> THEN [queued EXCEPT ![to[1]] = @ + 1] ELSE queued
            /\ pending' = IF to # <<>> THEN RemoveAt(pending, i) ELSE pending
            /\ result' = Outcome("assign_patient", <<pending[i]>>, <<>>, out.ret, out.raised)
    /\ UNCHANGED <<clock, created, order>>

\* SpecDelivery: the calls of Spec on a registry built by the constructor,
\* with a standard output that may fail
InitDelivery == Startup(1..MaxDoctors, {"General", "Cardiology"}, {10})

NextDelivery ==
    \/ NewPatient(RoutingInputs, 1, MaxPatients)
    \/ assign_patient /\ Unrecorded
    \/ assign_patient_undelivered /\ Unrecorded
    \/ \E d \in DOMAIN doctors : next_patient(d) /\ Unrecorded

SpecDelivery == InitDelivery /\ [][NextDelivery]_vars

\* SpecBalance: a registry of General doctors, patients assigned one after
\* the other, next_patient calls in between
BalanceInputs ==
    [ scheduled_time : {<<>>},
      source : {"App"},
      medical_condition : {conditions[1], conditions[4]},
      rSource : {"App"},
      rCondition : {conditions[1]},
      rUrgency : {conditions[3]} ]

InitBalance == Startup(1..MaxDoctors, {"General"}, AvgTimes)

NextBalance ==
    \/ NewPatient(BalanceInputs, 1, MaxBalanced)
    \/ assign_patient /\ Unrecorded
    \/ \E d \in DOMAIN doctors : next_patient(d) /\ Unrecorded

SpecBalance == InitBalance /\ [][NextBalance]_vars

----------------------------------------------------------------------------
(* What the specification says, in its own terms *)

\* Section 4.4: the required specialization of a condition, by its name
RequiredSpecialization(name) ==
    CASE name = "Chronic Disease Follow-up" -> "Cardiology"
      [] name = "Acute Pain" -> "Orthopedics"
      [] name = "Severe Symptoms" -> "Neurology"
      [] OTHER -> "General"

\* Section 4.4: is_suitable
Suitable(doc, patient) ==
    \/ doc.specialization = "General"
    \/ doc.specialization = RequiredSpecialization(patient.medical_condition[1])

\* Section 4.2: queue size times average consultation time
Wait(doc) == Len(doc.queue) * doc.avg_consultation_time

\* Section 4.1: whole minutes of arrival - scheduled, zero when early or on time
DelayMinutes(patient) ==
    IF patient.arrival_time <= patient.scheduled_time
    THEN 0
    ELSE (patient.arrival_time - patient.scheduled_time) \div 60

\* Section 4.1: source_adjustment
SourceAdjustment(source) ==
    IF source = "Walk-in" THEN -1 ELSE IF source = "App" THEN 1 ELSE 0

Assigned == result.op = "assign_patient" /\ result.raised = ""

Pending == Range(pending)

----------------------------------------------------------------------------
(* Claims *)

\* C1: on a queue onto which n patients were pushed and from which none was
\* popped before the last push, the k-th next_patient call returns a patient
\* for k <= n and None for k > n, the patients come back in non-increasing
\* priority order, and each is one of the pushed patients, none twice.
C1_DrainInPriorityOrder ==
    \A d \in DOMAIN calls :
        LET n == Len(calls[d].pushed)
            r == calls[d].returns
        IN  ~calls[d].mixed =>
                /\ \A k \in 1..Len(r) : (r[k] # <<>>) <=> (k <= n)
                /\ \A j, k \in 1..Len(r) :
                       j < k /\ k <= n =>
                           /\ r[j][1].priority >= r[k][1].priority
                           /\ r[j][1].patient_id # r[k][1].patient_id
                /\ \A k \in 1..Len(r) :
                       k <= n => r[k][1].patient_id \in Range(calls[d].pushed)

\* C1 witness: three patients pushed, the first not the most urgent, then
\* five calls: three patients and None twice
C1_Witness ==
    \E d \in DOMAIN calls :
        /\ ~calls[d].mixed
        /\ Len(calls[d].pushed) = 3
        /\ Len(calls[d].returns) = 5
        /\ calls[d].returns[1] # <<>>
        /\ calls[d].returns[1][1].patient_id # calls[d].pushed[1]
        /\ calls[d].returns[1][1].priority > calls[d].returns[3][1].priority
        /\ calls[d].returns[5] = <<>>

\* C2: the doctor a successful assign_patient returns is suitable for the
\* patient, and no suitable doctor of the registry had a smaller estimated
\* wait just before the push.
C2_SuitableAndLeastWait ==
    Assigned =>
        LET patient == result.patient[1]
            chosen == result.pre[result.ret[1]]
        IN  /\ Suitable(chosen, patient)
            /\ \A d \in DOMAIN result.pre :
                   Suitable(result.pre[d], patient) => Wait(chosen) <= Wait(result.pre[d])

\* C2 witness: a matching specialist with a shorter wait is returned although
\* a General doctor with a longer wait is registered
C2_Witness ==
    /\ Assigned
    /\ result.pre[result.ret[1]].specialization # "General"
    /\ \E d \in DOMAIN result.pre :
           /\ result.pre[d].specialization = "General"
           /\ Wait(result.pre[d]) > Wait(result.pre[result.ret[1]])

\* C3: when the registry holds no General doctor and no doctor of the
\* patient's required specialization, assign_patient fails with
\* NoAvailableDoctor.
C3_NoAvailableDoctor ==
    /\ result.op = "assign_patient"
    /\ \A d \in DOMAIN result.pre : ~Suitable(result.pre[d], result.patient[1])
    => result.raised = "NoAvailableDoctor"

\* C4: when no doctor of the registry has the patient's required
\* specialization and a General doctor is registered, assign_patient succeeds
\* and returns a General doctor.
C4_FallbackToGeneral ==
    /\ result.op = "assign_patient"
    /\ \A d \in DOMAIN result.pre :
           result.pre[d].specialization # RequiredSpecialization(result.patient[1].medical_condition[1])
    /\ \E d \in DOMAIN result.pre : result.pre[d].specialization = "General"
    => /\ result.raised = ""
       /\ result.pre[result.ret[1]].specialization = "General"

\* C4 witness: the General doctor is returned although a doctor of another
\* specialization has a shorter wait
C4_Witness ==
    /\ Assigned
    /\ \A d \in DOMAIN result.pre :
           result.pre[d].specialization # RequiredSpecialization(result.patient[1].medical_condition[1])
    /\ result.pre[result.ret[1]].specialization = "General"
    /\ \E d \in DOMAIN result.pre :
           /\ result.pre[d].specialization # "General"
           /\ Wait(result.pre[d]) < Wait(result.pre[result.ret[1]])

\* C5: priority = urgency * 10 - delay_minutes + source_adjustment for every
\* patient, and two patients of equal urgency and source that arrive early or
\* on time have the same priority.
C5_PriorityFormula ==
    /\ \A p \in Pending :
           p.priority = p.urgency * 10 - DelayMinutes(p) + SourceAdjustment(p.source)
    /\ \A p, q \in Pending :
           /\ p.arrival_time <= p.scheduled_time
           /\ q.arrival_time <= q.scheduled_time
           /\ p.urgency = q.urgency
           /\ p.source = q.source
           => p.priority = q.priority

\* C5 witness: a patient from an unknown source who is a minute or more late,
\* beside a walk-in patient who is early
C5_Witness ==
    \E p, q \in Pending :
        /\ DelayMinutes(p) >= 1
        /\ p.source = UnknownSource
        /\ q.arrival_time < q.scheduled_time
        /\ q.source = "Walk-in"

\* C6: of two patients with equal source and medical condition that arrive at
\* the same instant, the one scheduled earlier has a priority at least that of
\* the other.
C6_EarlierScheduledNotBelow ==
    \A p1, p2 \in Pending :
        /\ p1.source = p2.source
        /\ p1.medical_condition = p2.medical_condition
        /\ p1.arrival_time = p2.arrival_time
        /\ p1.scheduled_time < p2.scheduled_time
        => p1.priority >= p2.priority

\* C7: for equal urgency and source, the priority computed with the longer
\* delay is at least the priority computed with the shorter.
C7_NonDecreasingInDelay ==
    \A p1, p2 \in Pending :
        /\ p1.urgency = p2.urgency
        /\ p1.source = p2.source
        /\ DelayMinutes(p1) <= DelayMinutes(p2)
        => p2.priority >= p1.priority

\* C8: after any sequence of assign_patient, add_patient and next_patient,
\* estimate_wait_time is the number of patients in the doctor's queue (those
\* pushed less those popped) times avg_consultation_time.
C8_WaitIsQueuedTimesAvg ==
    \A d \in DOMAIN doctors :
        Doctor_estimate_wait_time(doctors[d]) = queued[d] * doctors[d].avg_consultation_time

\* C8 witness: a patient has just been popped off a queue filled by
\* assign_patient and by add_patient, and two patients are left
C8_Witness ==
    /\ result.op = "next_patient"
    /\ result.ret # <<>>
    /\ notifications # <<>>
    /\ \E d \in DOMAIN doctors :
           /\ queued[d] = 2
           /\ Len(calls[d].pushed) > Len(notifications)
           /\ Doctor_estimate_wait_time(doctors[d]) = 50

\* C9: a successful assign_patient adds exactly one notification, addressed
\* to the assigned patient and naming the returned doctor; every other call
\* leaves the notifications as they were.
C9_OneNotificationPerAssignment ==
    IF Assigned
    THEN /\ Len(notifications) = Len(result.preNotifications) + 1
         /\ SubSeq(notifications, 1, Len(result.preNotifications)) = result.preNotifications
         /\ notifications[Len(notifications)].patient_id = result.patient[1].patient_id
         /\ notifications[Len(notifications)].message.doctor_id = result.ret[1]
    ELSE notifications = result.preNotifications

\* C9 witness: the second successful assignment
C9_Witness ==
    /\ Assigned
    /\ Len(notifications) = 2

\* C10: the wait in the notification of a successful assign_patient is (the
\* size of the returned doctor's queue before the call + 1) times that
\* doctor's avg_consultation_time.
C10_WaitCountsNewPatient ==
    Assigned =>
        LET chosen == result.pre[result.ret[1]]
        IN  notifications[Len(notifications)].message.wait_time
                = (Len(chosen.queue) + 1) * chosen.avg_consultation_time

\* C10 witness: the patient is the second in the queue, the reported wait is
\* twice 25 minutes
C10_Witness ==
    /\ Assigned
    /\ Len(result.pre[result.ret[1]].queue) = 1
    /\ notifications[Len(notifications)].message.wait_time = 50

\* C11: when several suitable doctors share the minimum estimated wait, the
\* doctor a successful assign_patient returns is the one with the smallest
\* doctor id, whatever the order in which the doctors were registered.
C11_TieBrokenBySmallestId ==
    Assigned =>
        LET patient == result.patient[1]
            chosen == result.pre[result.ret[1]]
        IN  \A d \in DOMAIN result.pre :
                Suitable(result.pre[d], patient) /\ Wait(result.pre[d]) = Wait(chosen)
                    => result.ret[1] <= d

\* C12: among the patients of equal priority in one doctor's queue,
\* next_patient returns the one with the earlier scheduled time first and,
\* the scheduled times being equal too, the one created first: the patient
\* returned is never preceded in that order by a patient of the same
\* priority that is still queued.
C12_StableOrderAmongEqualPriority ==
    result.op = "next_patient" /\ result.ret # <<>> =>
        LET p == result.ret[1]
            d == result.doctor[1]
        IN  \A k \in 1..Len(doctors[d].queue) :
                LET q == doctors[d].queue[k]
                IN  q.priority = p.priority =>
                        \/ p.scheduled_time < q.scheduled_time
                        \/ /\ p.scheduled_time = q.scheduled_time
                           /\ p.patient_id < q.patient_id

\* C13: the urgency of a patient is the severity of the patient's own
\* medical condition.
C13_UrgencyIsOwnSeverity ==
    \A p \in Pending : p.urgency = p.medical_condition[2]

\* C14: two patients created with the same medical condition, source,
\* scheduled time and arrival time have the same urgency and the same
\* priority.
C14_SameInputsSamePriority ==
    \A p, q \in Pending :
        /\ p.medical_condition = q.medical_condition
        /\ p.source = q.source
        /\ p.scheduled_time = q.scheduled_time
        /\ p.arrival_time = q.arrival_time
        => p.urgency = q.urgency /\ p.priority = q.priority

\* C15: the condition-to-specialization mapping is total: Chronic Disease
\* Follow-up maps to Cardiology, Acute Pain to Orthopedics, Severe Symptoms
\* to Neurology, and every other condition, unknown or malformed, maps to
\* General; no call of the mapping raises.
C15_MappingTotal ==
    result.op = "_map_condition_to_specialization" =>
        LET v == result.patient[1]
            named == v.type = "tuple" /\ v.value # <<>>
        IN  /\ result.raised = ""
            /\ result.ret = <<IF named THEN RequiredSpecialization(v.value[1]) ELSE "General">>

\* C16: a notification that cannot be delivered does not fail the
\* assignment: whenever the registry holds a suitable doctor for the patient,
\* assign_patient returns a doctor and the patient is in that doctor's queue,
\* whatever becomes of the notification.
C16_AssignmentSurvivesDeliveryFailure ==
    result.op = "assign_patient"
    /\ (\E d \in DOMAIN result.pre : Suitable(result.pre[d], result.patient[1]))
    => /\ result.raised = ""
       /\ result.ret # <<>>
       /\ \E k \in 1..Len(doctors[result.ret[1]].queue) :
              doctors[result.ret[1]].queue[k] = result.patient[1]

\* C17: a successful assign_patient changes the returned doctor's queue
\* only: that queue holds the patients it held before and the assigned
\* patient, one patient more, every other doctor is as before, and the same
\* doctors are registered.
C17_OnlyChosenQueueGrows ==
    Assigned =>
        LET c == result.ret[1]
            patient == result.patient[1]
        IN  /\ DOMAIN doctors = DOMAIN result.pre
            /\ \A d \in DOMAIN doctors \ {c} : doctors[d] = result.pre[d]
            /\ [doctors[c] EXCEPT !.queue = <<>>] = [result.pre[c] EXCEPT !.queue = <<>>]
            /\ Len(doctors[c].queue) = Len(result.pre[c].queue) + 1
            /\ patient \notin Range(result.pre[c].queue)
            /\ Range(doctors[c].queue) = Range(result.pre[c].queue) \cup {patient}

\* C17 witness: of two registered doctors, the one returned already had a
\* patient queued
C17_Witness ==
    /\ Assigned
    /\ Cardinality(DOMAIN doctors) = 2
    /\ Len(result.pre[result.ret[1]].queue) = 1

\* C18: whatever the interleaving of pushes and next_patient calls on a
\* queue, a next_patient call on a non-empty queue removes and returns one
\* of its patients, whose priority is at least that of every patient still
\* queued, and a call on an empty queue returns None and leaves the queue
\* empty.
C18_PopReturnsMaximum ==
    result.op = "next_patient" =>
        LET d == result.doctor[1]
            before == result.pre[d].queue
            after == doctors[d].queue
        IN  IF before = <<>>
            THEN result.ret = <<>> /\ after = <<>>
            ELSE /\ result.ret # <<>>
                 /\ result.ret[1] \in Range(before)
                 /\ Len(after) = Len(before) - 1
                 /\ Range(after) = Range(before) \ {result.ret[1]}
                 /\ \A k \in 1..Len(after) : result.ret[1].priority >= after[k].priority

\* C18 witness: a patient was pushed after an earlier next_patient call, and
\* the call returns a patient while a patient of lower priority stays queued
C18_Witness ==
    /\ result.op = "next_patient"
    /\ result.ret # <<>>
    /\ calls[result.doctor[1]].mixed
    /\ \E k \in 1..Len(doctors[result.doctor[1]].queue) :
           doctors[result.doctor[1]].queue[k].priority < result.ret[1].priority

\* C19: an assign_patient call for which the registry holds no candidate,
\* neither a suitable doctor nor a General one, fails and changes nothing:
\* no patient is queued, no notification is emitted, the registry is as
\* before.
C19_FailedAssignChangesNothing ==
    result.op = "assign_patient"
    /\ (\A d \in DOMAIN result.pre : ~Suitable(result.pre[d], result.patient[1]))
    => /\ result.raised # ""
       /\ result.ret = <<>>
       /\ doctors = result.pre
       /\ notifications = result.preNotifications
       /\ result.patient[1] \in Pending

\* C19 witness: the call fails on a registry whose doctor has a patient
\* queued and a notification behind it
C19_Witness ==
    /\ result.op = "assign_patient"
    /\ result.raised # ""
    /\ notifications # <<>>
    /\ \E d \in DOMAIN doctors : doctors[d].queue # <<>>

RECURSIVE QueuedUpTo(_)
\* the number of patients in the queues of the first n registered doctors
QueuedUpTo(n) ==
    IF n = 0 THEN 0 ELSE QueuedUpTo(n - 1) + Len(doctors[order[n]].queue)

\* every patient assigned so far is still queued: no next_patient call has
\* taken one out
NothingPopped == QueuedUpTo(Len(order)) = Len(notifications)

\* the doctors are all General and have the same avg_consultation_time
UniformGeneral ==
    \A d, e \in DOMAIN doctors :
        /\ doctors[d].specialization = "General"
        /\ doctors[d].avg_consultation_time = doctors[e].avg_consultation_time

\* C20: with every doctor General and of the same avg_consultation_time,
\* after any sequence of assign_patient calls with no patient popped in
\* between, the queue sizes of any two doctors differ by at most 1.
C20_BalancedQueues ==
    UniformGeneral /\ NothingPopped =>
        \A d, e \in DOMAIN doctors :
            Len(doctors[d].queue) - Len(doctors[e].queue) <= 1

\* C20 witness: three patients assigned to two doctors and none popped
C20_Witness ==
    /\ UniformGeneral
    /\ NothingPopped
    /\ Cardinality(DOMAIN doctors) = 2
    /\ Len(notifications) = 3
    /\ result.op = "assign_patient"

====
